---------------------------- MODULE Spec2Model ----------------------------
(***************************************************************************)
(* Model of the interactive authorization workflow of the KeePassXC CLI   *)
(* secret-service plugin (FdoSecretsPluginCLI): userAction, the prompt    *)
(* primitive reading Utils::STDIN, and the two request handlers           *)
(* requestEntriesUnlock and requestEntriesRemove; of the line readers of  *)
(* cli/LineReader.h with their guard; and of the interactive session of   *)
(* keepassxc-cli.cpp (enterInteractiveMode).                              *)
(*                                                                         *)
(* Text is modelled as sequences of one-character strings; "NL" is the    *)
(* line terminator.  Utils::STDIN is the unread part of the standard      *)
(* input: the operator appends whole lines to it and may close it.        *)
(* A behaviour serves one request: pc goes from "idle" through the        *)
(* prompts of the handler to "done".  rd and hist record the last         *)
(* iteration of userAction and the answers given during the request.      *)
(***************************************************************************)
EXTENDS Integers, Sequences, FiniteSets, TLC

----------------------------------------------------------------------------
(* Bounds of the model *)

\* longest run of unread white space after which the operator still types
MaxPending == 3

\* longest entry list handed to a request
MaxEntries == 3

\* most guards acquired on the line reader during one session
MaxCycles == 2

\* longest readline history the session is followed to
MaxHistory == 2

\* most ReadlineLineReader objects that exist at a time
MaxObjects == 4

----------------------------------------------------------------------------
(* The entries of the store and the references the database may hold *)

Entry == {"e1", "e2", "e3"}

\* <<r, e>>: a field of r embeds a placeholder that points at e
RefPairs == {<<"e2", "e1">>, <<"e3", "e1">>, <<"e3", "e2">>}

\* the references the database holds when the plugin is constructed
InitialRefs == { RefPairs, {<<"e2", "e1">>, <<"e3", "e1">>} }

----------------------------------------------------------------------------
(* QString / QTextStream primitives used by userAction *)

\* QChar::isSpace on the characters of the model
IsSpace(c) == c \in {" ", "NL"}

\* QChar::toLower
ToLowerChar(c) ==
    CASE c = "A" -> "a"
      [] c = "D" -> "d"
      [] c = "N" -> "n"
      [] c = "O" -> "o"
      [] c = "S" -> "s"
      [] c = "Y" -> "y"
      [] OTHER -> c

\* QString::toLower
toLower(s) == [k \in 1..Len(s) |-> ToLowerChar(s[k])]

\* the element of a one-element set
TheOnly(S) == CHOOSE x \in S : TRUE

RECURSIVE FirstNonSpace(_, _)
\* the first position from k on of a character of s that is no white space,
\* or Len(s) + 1
FirstNonSpace(s, k) ==
    IF k > Len(s) \/ ~IsSpace(s[k]) THEN k ELSE FirstNonSpace(s, k + 1)

RECURSIVE LastNonSpace(_, _)
\* the last position up to k of a character of s that is no white space, or 0
LastNonSpace(s, k) ==
    IF k < 1 \/ ~IsSpace(s[k]) THEN k ELSE LastNonSpace(s, k - 1)

RECURSIVE WordEnd(_, _)
\* the first position from k on of a white space of s, or Len(s) + 1
WordEnd(s, k) ==
    IF k > Len(s) \/ IsSpace(s[k]) THEN k ELSE WordEnd(s, k + 1)

RECURSIVE FirstOf(_, _, _)
\* the first position from k on of character c in s, or Len(s) + 1
FirstOf(s, c, k) ==
    IF k > Len(s) \/ s[k] = c THEN k ELSE FirstOf(s, c, k + 1)

RECURSIVE LastOf(_, _, _)
\* the last position up to k of character c in s, or 0
LastOf(s, c, k) ==
    IF k < 1 \/ s[k] = c THEN k ELSE LastOf(s, c, k - 1)

\* QString::trimmed
trimmed(s) == SubSeq(s, FirstNonSpace(s, 1), LastNonSpace(s, Len(s)))

\* QTextStream::operator>>(QString&): skip white space, then read one word;
\* the delimiter after the word stays in the stream
ReadWord(s) ==
    TheOnly({ TheOnly({ [word    |-> SubSeq(s, a, b - 1),
                         skipped |-> SubSeq(s, 1, a - 1),
                         rest    |-> SubSeq(s, b, Len(s))]
                        : b \in {WordEnd(s, a)} })
              : a \in {FirstNonSpace(s, 1)} })

RECURSIVE SplitFrom(_, _, _)
\* the parts of s from position k on that separator sep delimits
SplitFrom(s, sep, k) ==
    IF FirstOf(s, sep, k) > Len(s) THEN <<SubSeq(s, k, Len(s))>>
    ELSE <<SubSeq(s, k, FirstOf(s, sep, k) - 1)>>
         \o SplitFrom(s, sep, FirstOf(s, sep, k) + 1)

\* QString::split(sep)
split(s, sep) == SplitFrom(s, sep, 1)

\* the part of s before its first line terminator
UpToNL(s) == SubSeq(s, 1, FirstOf(s, "NL", 1) - 1)

\* the part of s after its last line terminator
AfterLastNL(s) == SubSeq(s, LastOf(s, "NL", Len(s)) + 1, Len(s))

----------------------------------------------------------------------------
(* The alias lists the handlers pass to userAction *)

UnlockMatches ==
    << <<"a", "|", "a", "l", "l", "o", "w", "|",
         "a", "l", "l", "o", "w", " ", "a", "l", "l">>,
       <<"d", "|", "d", "e", "n", "y", "|",
         "d", "e", "n", "y", " ", "a", "l", "l">>,
       <<"s", "|", "s", "e", "l", "e", "c", "t", "e", "d", "|",
         "a", "l", "l", "o", "w", " ", "s", "e", "l", "e", "c", "t", "e", "d">> >>

YesNoMatches ==
    << <<"y", "|", "y", "e", "s">>, <<"n", "|", "n", "o">> >>

ConfirmMatches ==
    << <<"a", "|", "a", "l", "l", "o", "w">>, <<"d", "|", "d", "e", "n", "y">> >>

ReferenceMatches ==
    << <<"o", "|", "o", "v", "e", "r", "w", "r", "i", "t", "e">>,
       <<"s", "|", "s", "k", "i", "p">>,
       <<"d", "|", "d", "e", "l", "e", "t", "e">> >>

\* the aliases accepted for each choice (0-based) of an alias list: the
\* two loops of userAction over matches and over action.split("|")
Aliases(matches) ==
    [i \in 0..(Len(matches) - 1) |->
        {toLower(trimmed(split(matches[i + 1], "|")[k])) :
            k \in 1..Len(split(matches[i + 1], "|"))}]

UnlockAliases == Aliases(UnlockMatches)

YesNoAliases == Aliases(YesNoMatches)

ConfirmAliases == Aliases(ConfirmMatches)

ReferenceAliases == Aliases(ReferenceMatches)

----------------------------------------------------------------------------
(* What the operator may type *)

InputLines ==
    { <<"a">>, <<"d">>, <<"s">>, <<"y">>, <<"n">>, <<"o">>, <<"x">>,
      <<" ", "Y", " ">>,
      <<"a", "l", "l", "o", "w", " ", "a", "l", "l">>,
      <<"a", "l", "l", "o", "w", " ", "s", "e", "l", "e", "c", "t", "e", "d">>,
      <<>> }

\* an unterminated last line, typed right before the input is closed
InputTails == { <<>>, <<"y">>, <<"x">> }


----------------------------------------------------------------------------
(* cli/LineReader.h: the connections of m_notifier, pause and restore *)

\* SimpleLineReader, or ReadlineLineReader when USE_READLINE is defined
Backends == {"simple", "readline"}

\* QObject::connect(sender, signal, functor) without a context object: the
\* sender is the receiver of the connection
connect(conns, slot) == Append(conns, [receiver |-> "m_notifier", slot |-> slot])

\* QObject::disconnect(receiver): the connections to that receiver go
disconnect(conns, receiver) ==
    SelectSeq(conns, LAMBDA c : c.receiver # receiver)

\* a reader before the constructor of the derived class has run; out and
\* emitted are what the reader printed and the signals it emitted during the
\* handler that ran last
NoReader ==
    [m_notifier |-> <<>>, rl_linefunc |-> FALSE, history |-> <<>>,
     out |-> <<>>, emitted |-> <<>>]

\* the reader at the start of a handler
Fresh(lr) == [lr EXCEPT !.out = <<>>, !.emitted = <<>>]

\* SimpleLineReader::pause / ReadlineLineReader::pause
pause(b, lr) ==
    IF b = "simple"
    THEN [lr EXCEPT !.out = Append(@, "endl"),
                    !.m_notifier = disconnect(@, "this")]
    ELSE [lr EXCEPT !.m_notifier = disconnect(@, "this"),
                    !.rl_linefunc = FALSE]

\* restore that prints no prompt
restoreSilent(b, lr) ==
    IF b = "simple"
    THEN [lr EXCEPT !.m_notifier = connect(@, "lambda")]
    ELSE [lr EXCEPT !.rl_linefunc = TRUE,
                    !.m_notifier = connect(@, "rl_callback_read_char")]

\* SimpleLineReader::restore / ReadlineLineReader::restore;
\* rl_callback_handler_install displays the prompt
restore(b, lr) ==
    IF b = "simple"
    THEN [lr EXCEPT !.out = Append(@, "prompt"),
                    !.m_notifier = connect(@, "lambda")]
    ELSE [lr EXCEPT !.out = Append(@, "prompt"),
                    !.rl_linefunc = TRUE,
                    !.m_notifier = connect(@, "rl_callback_read_char")]

\* the constructors SimpleLineReader(prompt) / ReadlineLineReader(prompt)
LineReader(b) == restore(b, NoReader)

\* the value of ReadlineLineReader::instance before any reader is constructed
nullptr == 0

\* ReadlineLineReader::ReadlineLineReader: instance = this
ownerAfter(b, inst, this) == IF b = "readline" THEN this ELSE inst

\* the ReadlineLineReader objects once the reader `this` is constructed
aliveAfter(b, objs, this) == IF b = "readline" THEN objs \cup {this} ELSE objs

\* ~ReadlineLineReader: the handler of readline is removed, and the slots
\* connected to the notifier go with the notifier
destroyed(lr) == [lr EXCEPT !.m_notifier = <<>>, !.rl_linefunc = FALSE]

\* the record of the reader operation that ran last
NoEv ==
    [op |-> "none", input |-> <<>>, rest |-> <<>>, closed |-> FALSE,
     cmd |-> "none", before |-> <<>>]

\* getPrompt: the flags in brackets, the name of the database and "> "
getPrompt(db, fdo, ssh) == [F |-> fdo, S |-> ssh, name |-> db]

----------------------------------------------------------------------------
(* State *)

VARIABLES
    stdin,            \* Utils::STDIN: the unread characters
    eof,              \* the operator closed the input
    consumed,         \* the part of the current line already read
    store,            \* the entries of the database (recycle bin excluded)
    recycled,         \* the entries moved to the recycle bin
    refs,             \* the placeholder references between entries
    pc,               \* "idle", the prompt the plugin waits at, or "done"
    req,              \* the arguments of the request being served
    idx,              \* position of the for loop over req.entries
    action,           \* local of requestEntriesUnlock
    decision,         \* local of requestEntriesUnlock
    decisions,        \* in/out parameter of requestEntriesUnlock
    forFutureEntries, \* out parameter of requestEntriesUnlock
    selectedEntries,  \* local of requestEntriesRemove
    retUnlock,        \* the value requestEntriesUnlock returned last
    retRemove,        \* the value requestEntriesRemove returned last
    rd,               \* the last iteration of the loop of userAction
    hist,             \* what was asked and answered during the request
    asked,            \* the questions put to the operator during the request
    backend,          \* which LineReader the build constructs
    reader,           \* the LineReader of the session
    guards,           \* the number of live LineReaderGuard objects
    pending,          \* the slots of m_notifier.activated still to be called
    loop,             \* where enterInteractiveMode is
    ev,               \* what was done last with the reader or the terminal
    finishedCount,    \* how often the reader emitted finished()
    withFdoSecrets,   \* argument of enterInteractiveMode
    withSSHAgent,     \* argument of enterInteractiveMode
    currentDatabase,  \* local of enterInteractiveMode
    m_prompt,         \* the prompt of enterInteractiveMode the reader refers to
    fdoSS,            \* the databases registered with the secret service
    sshAgent,         \* the databases registered with the SSH agent
    instance,         \* ReadlineLineReader::instance, nullptr or an object
    alive             \* the ReadlineLineReader objects that exist

ioVars  == <<stdin, eof, consumed>>
dbVars  == <<store, recycled, refs>>
unlVars == <<action, decision, decisions, forFutureEntries, retUnlock>>
remVars == <<selectedEntries, retRemove>>
lrVars  == <<backend, reader, guards, pending, loop, ev, finishedCount>>
sesVars == <<withFdoSecrets, withSSHAgent, currentDatabase, m_prompt, fdoSS,
             sshAgent>>
rlVars  == <<instance, alive>>
vars == <<stdin, eof, consumed, store, recycled, refs, pc, req, idx, action,
          decision, decisions, forFutureEntries, selectedEntries, retUnlock,
          retRemove, rd, hist, asked, backend, reader, guards, pending, loop,
          ev, finishedCount, withFdoSecrets, withSSHAgent, currentDatabase,
          m_prompt, fdoSS, sshAgent, instance, alive>>

\* the sequences without repetition over a set of entries
DistinctSeqs(S) ==
    {q \in UNION {[1..n -> S] : n \in 0..MaxEntries} :
        \A i, j \in 1..Len(q) : i # j => q[i] # q[j]}

Range(q) == {q[k] : k \in 1..Len(q)}

NoRead ==
    [prompt |-> "none", input |-> <<>>, line |-> <<>>, first |-> FALSE,
     again |-> FALSE, result |-> -1, notice |-> FALSE, more |-> FALSE]

NoHist ==
    [confirmAsked |-> FALSE, confirm |-> -1, answers |-> <<>>,
     remember |-> -1, resolution |-> <<>>, cancelled |-> FALSE,
     early |-> FALSE, noticed |-> FALSE,
     decisions0 |-> <<>>, store0 |-> {}, recycled0 |-> {}, refs0 |-> {}]

NoReq == [kind |-> "none", entries |-> <<>>, permanent |-> FALSE,
          confirmDeleteItem |-> FALSE]

\* the session after enterInteractiveMode has set it up with the secret
\* service plugin: the event loop runs
Running ==
    /\ guards = 0
    /\ pending = <<>>
    /\ loop = "running"
    /\ ev = NoEv
    /\ finishedCount = 0
    /\ withFdoSecrets = TRUE
    /\ withSSHAgent = FALSE
    /\ currentDatabase = "db1"
    /\ m_prompt = getPrompt("db1", TRUE, FALSE)
    /\ fdoSS = {"db1"}
    /\ sshAgent = {}
    /\ instance = ownerAfter(backend, nullptr, 1)
    /\ alive = aliveAfter(backend, {}, 1)

Init ==
    /\ stdin = <<>>
    /\ eof = FALSE
    /\ consumed = <<>>
    /\ store = Entry
    /\ recycled = {}
    /\ refs \in InitialRefs
    /\ pc = "idle"
    /\ req = NoReq
    /\ idx = 0
    /\ action = "Rejected"
    /\ decision = "Undecided"
    /\ decisions = <<>>
    /\ forFutureEntries = "Undecided"
    /\ selectedEntries = <<>>
    /\ retUnlock = FALSE
    /\ retRemove = 0
    /\ rd = NoRead
    /\ hist = NoHist
    /\ asked = <<>>
    /\ backend \in Backends
    /\ reader = Fresh(LineReader(backend))
    /\ Running

----------------------------------------------------------------------------
(* The operator *)

\* the operator types one line; at most one unread line is kept pending,
\* and what is typed after the request has returned is not the plugin's
TypeLine ==
    /\ pc # "done"
    /\ ~eof
    /\ ReadWord(stdin).rest = <<>>
    /\ Len(stdin) < MaxPending
    /\ \E l \in InputLines : stdin' = stdin \o l \o <<"NL">>
    /\ UNCHANGED <<eof, consumed, dbVars, pc, req, idx, unlVars, remVars,
                   rd, hist, asked, lrVars, sesVars, rlVars>>

\* the operator closes the input, possibly after an unterminated last line
CloseInput ==
    /\ pc # "done"
    /\ ~eof
    /\ ReadWord(stdin).rest = <<>>
    /\ eof' = TRUE
    /\ \E t \in InputTails : stdin' = stdin \o t
    /\ UNCHANGED <<consumed, dbVars, pc, req, idx, unlVars, remVars,
                   rd, hist, asked, lrVars, sesVars, rlVars>>

----------------------------------------------------------------------------
(* userAction *)

\* atEnd that never reports the end of the input
atEndNever(rest, closed) == FALSE

\* QTextStream::atEnd after a read that left `rest` unread
atEnd(rest, closed) == rest = <<>> /\ closed

\* the choices (0-based) one of whose aliases equals the cleaned input
Matching(aliases, clean) == {i \in DOMAIN aliases : clean \in aliases[i]}

\* what one iteration returns or does once word r was read and the choices
\* `hits` match it
Outcome(r, hits, closed) ==
    IF atEnd(r.rest, closed)
    THEN [input |-> r.word, skipped |-> r.skipped, rest |-> r.rest,
          again |-> FALSE, result |-> -1, notice |-> FALSE]
    ELSE IF hits # {}
    THEN [input |-> r.word, skipped |-> r.skipped, rest |-> r.rest,
          again |-> FALSE, notice |-> FALSE,
          result |-> CHOOSE i \in hits : \A j \in hits : i <= j]
    ELSE [input |-> r.word, skipped |-> r.skipped, rest |-> r.rest,
          again |-> TRUE, result |-> -1, notice |-> TRUE]

\* one iteration of the while (true) loop of userAction on the unread input s
userAction(aliases, s, closed) ==
    TheOnly({ Outcome(r, Matching(aliases, toLower(trimmed(r.word))), closed)
              : r \in {ReadWord(s)} })

\* operator>> blocks until a delimited word or the end of the input is there
CanRead == eof \/ ReadWord(stdin).rest # <<>>

\* the effect of one iteration r of userAction on the input and on the
\* record of the last read
Consume(prompt, r) ==
    \E before \in {AfterLastNL(consumed \o r.skipped)} :
        /\ stdin' = r.rest
        /\ consumed' = before \o r.input
        /\ rd' = [prompt |-> prompt, input |-> r.input,
                  line   |-> before \o r.input \o UpToNL(r.rest),
                  first  |-> trimmed(before) = <<>>,
                  again  |-> r.again, result |-> r.result,
                  notice |-> r.notice,
                  more   |-> r.rest # <<>> \/ ~eof]
        /\ UNCHANGED eof

----------------------------------------------------------------------------
(* LineReaderGuard *)

\* LineReaderGuard::LineReaderGuard: the reader is paused
LineReaderGuard ==
    /\ reader' = pause(backend, Fresh(reader))
    /\ guards' = guards + 1
    /\ ev' = [NoEv EXCEPT !.op = "pause"]
    /\ UNCHANGED <<backend, pending, loop, finishedCount>>

\* a guard whose destruction restores the reader but stays counted as live
LineReaderGuardLeak ==
    /\ reader' = restore(backend, Fresh(reader))
    /\ guards' = guards
    /\ ev' = [NoEv EXCEPT !.op = "restore"]
    /\ UNCHANGED <<backend, pending, loop, finishedCount>>

\* LineReaderGuard::~LineReaderGuard: the reader is restored
LineReaderGuardRelease ==
    /\ reader' = restore(backend, Fresh(reader))
    /\ guards' = guards - 1
    /\ ev' = [NoEv EXCEPT !.op = "restore"]
    /\ UNCHANGED <<backend, pending, loop, finishedCount>>

\* a guard whose scope is entered and left within one step
LineReaderGuardScope ==
    /\ reader' = restore(backend, pause(backend, Fresh(reader)))
    /\ ev' = [NoEv EXCEPT !.op = "restore"]
    /\ UNCHANGED <<backend, guards, pending, loop, finishedCount>>

----------------------------------------------------------------------------
(* requestEntriesUnlock *)

\* QHash::operator[] assignment
Put(d, k, v) == [x \in DOMAIN d \cup {k} |-> IF x = k THEN v ELSE d[x]]

\* QHash::value: a default-constructed AuthDecision for a missing key
Value(d, k) == IF k \in DOMAIN d THEN d[k] ELSE "Undecided"

\* the decision maps a caller may pass in
InitialDecisions == { <<>>, [e \in {"e1"} |-> "Denied"] }

\* the switch on the answer to "Choose action"
chosenAction(choice) ==
    CASE choice = 0 -> [action |-> "AllowAll", decision |-> "AllowedOnce"]
      [] choice = 1 -> [action |-> "DenyAll", decision |-> "DeniedOnce"]
      [] choice = 2 -> [action |-> "AllowSelected", decision |-> "AllowedOnce"]

\* entryDecision that denies an entry answered with "no"
entryDecisionDenied(undecided, dec) == IF undecided THEN "DeniedOnce" ELSE dec

\* the value stored for one entry by the loop over the entries
entryDecision(undecided, dec) == IF undecided THEN "Undecided" ELSE dec

\* the loop over the entries when no question is asked per entry
AssignAll(d, q, dec) ==
    [x \in DOMAIN d \cup Range(q) |->
        IF x \in Range(q) THEN entryDecision(FALSE, dec) ELSE d[x]]

\* rememberedDecision that sets no future policy
rememberedDecisionLocal(act, dec, future) ==
    CASE act \in {"AllowSelected", "AllowAll"} ->
            [decision |-> "Allowed", future |-> future]
      [] act = "DenyAll" -> [decision |-> "Denied", future |-> future]
      [] OTHER -> [decision |-> dec, future |-> future]

\* the branch "remember: yes": the durable decision and the future policy
rememberedDecision(act, dec, future) ==
    CASE act = "AllowSelected" -> [decision |-> "Allowed", future |-> future]
      [] act = "AllowAll" -> [decision |-> "Allowed", future |-> "Allowed"]
      [] act = "DenyAll" -> [decision |-> "Denied", future |-> "Denied"]
      [] OTHER -> [decision |-> dec, future |-> future]

\* Remember that makes every decided key of the map durable
RememberAll(d, q, dec) ==
    [x \in DOMAIN d |-> IF Value(d, x) # "Undecided" THEN dec ELSE d[x]]

\* the loop that makes the granted decisions durable
Remember(d, q, dec) ==
    [x \in DOMAIN d |->
        IF x \in Range(q) /\ Value(d, x) # "Undecided" THEN dec ELSE d[x]]

\* asksEntry that asks about every entry under every action
asksEntryAlways(act) == TRUE

\* whether the loop over the entries asks the yes/no question
asksEntry(act) == act = "AllowSelected"

\* the handler up to its first question
requestEntriesUnlock ==
    /\ pc = "idle"
    /\ \E q \in DistinctSeqs(store), d0 \in InitialDecisions :
          /\ req' = [kind |-> "unlock", entries |-> q, permanent |-> FALSE,
                     confirmDeleteItem |-> FALSE]
          /\ decisions' = d0
          /\ hist' = [NoHist EXCEPT !.decisions0 = d0, !.store0 = store,
                                    !.recycled0 = recycled, !.refs0 = refs]
    /\ decision' = "Undecided"
    /\ forFutureEntries' = "Undecided"
    /\ action' = "Rejected"
    /\ pc' = "unlock_action"
    /\ idx' = 0
    /\ rd' = NoRead
    /\ LineReaderGuard
    /\ asked' = << <<"unlock_action", 0>> >>
    /\ UNCHANGED <<ioVars, dbVars, retUnlock, remVars, sesVars, rlVars>>

\* return false
UnlockCancelled ==
    /\ pc' = "done"
    /\ retUnlock' = FALSE
    /\ hist' = [hist EXCEPT !.cancelled = TRUE]
    /\ LineReaderGuardRelease
    /\ UNCHANGED asked

\* the question "Choose action" and the code that follows its answer
unlockChooseAction ==
    /\ pc = "unlock_action"
    /\ CanRead
    /\ \E r \in {userAction(UnlockAliases, stdin, eof)} :
         /\ Consume("unlock_action", r)
         /\ IF r.again
            THEN /\ hist' = [hist EXCEPT !.noticed = TRUE]
                 /\ UNCHANGED <<pc, idx, unlVars, asked, lrVars>>
            ELSE IF r.result = -1
            THEN /\ UnlockCancelled
                 /\ UNCHANGED <<idx, action, decision, decisions,
                                forFutureEntries>>
            ELSE LET c == chosenAction(r.result) IN
                 /\ action' = c.action
                 /\ decision' = c.decision
                 /\ IF asksEntry(c.action) /\ req.entries # <<>>
                    THEN /\ pc' = "unlock_entry"
                         /\ idx' = 1
                         /\ asked' = Append(asked, <<"unlock_entry", 1>>)
                         /\ UNCHANGED decisions
                    ELSE /\ pc' = "unlock_remember"
                         /\ idx' = Len(req.entries) + 1
                         /\ asked' = Append(asked, <<"unlock_remember", 0>>)
                         /\ decisions' =
                               IF asksEntry(c.action) THEN decisions
                               ELSE AssignAll(decisions, req.entries, c.decision)
                 /\ UNCHANGED <<forFutureEntries, retUnlock, hist, lrVars>>
    /\ UNCHANGED <<dbVars, req, remVars, sesVars, rlVars>>

\* the yes/no question about entry idx and the code that follows its answer
unlockAskEntry ==
    /\ pc = "unlock_entry"
    /\ CanRead
    /\ \E r \in {userAction(YesNoAliases, stdin, eof)} :
         /\ Consume("unlock_entry", r)
         /\ IF r.again
            THEN /\ hist' = [hist EXCEPT !.noticed = TRUE]
                 /\ UNCHANGED <<pc, idx, unlVars, asked, lrVars>>
            ELSE IF r.result = -1
            THEN /\ UnlockCancelled
                 /\ UNCHANGED <<idx, action, decision, decisions,
                                forFutureEntries>>
            ELSE /\ decisions' = Put(decisions, req.entries[idx],
                                     entryDecision(r.result # 0, decision))
                 /\ hist' = [hist EXCEPT !.answers = Append(@, r.result)]
                 /\ idx' = idx + 1
                 /\ pc' = IF idx < Len(req.entries)
                          THEN "unlock_entry" ELSE "unlock_remember"
                 /\ asked' = Append(asked,
                                    IF idx < Len(req.entries)
                                    THEN <<"unlock_entry", idx + 1>>
                                    ELSE <<"unlock_remember", 0>>)
                 /\ UNCHANGED <<action, decision, forFutureEntries, retUnlock,
                                lrVars>>
    /\ UNCHANGED <<dbVars, req, remVars, sesVars, rlVars>>

\* the question "remember this action" and the code that follows its answer
unlockRemember ==
    /\ pc = "unlock_remember"
    /\ CanRead
    /\ \E r \in {userAction(YesNoAliases, stdin, eof)} :
         /\ Consume("unlock_remember", r)
         /\ IF r.again
            THEN /\ hist' = [hist EXCEPT !.noticed = TRUE]
                 /\ UNCHANGED <<pc, idx, unlVars, asked, lrVars>>
            ELSE IF r.result = -1
            THEN /\ UnlockCancelled
                 /\ UNCHANGED <<idx, action, decision, decisions,
                                forFutureEntries>>
            ELSE /\ pc' = "done"
                 /\ retUnlock' = TRUE
                 /\ hist' = [hist EXCEPT !.remember = r.result]
                 /\ IF r.result = 0
                    THEN LET m == rememberedDecision(action, decision,
                                                     forFutureEntries) IN
                         /\ decision' = m.decision
                         /\ forFutureEntries' = m.future
                         /\ decisions' = Remember(decisions, req.entries,
                                                  m.decision)
                    ELSE UNCHANGED <<decision, decisions, forFutureEntries>>
                 /\ LineReaderGuardRelease
                 /\ UNCHANGED <<idx, action, asked>>
    /\ UNCHANGED <<dbVars, req, remVars, sesVars, rlVars>>


----------------------------------------------------------------------------
(* The database operations requestEntriesRemove calls *)

\* Group::referencesRecursive: the entries under the root group (recycle
\* bin included) one of whose fields refers to entry e
referencesRecursive(R, live, e) == {r \in live : <<r, e>> \in R}

\* Entry::replaceReferencesWithValues: the fields of r that refer to e get
\* the values they resolve to
replaceReferencesWithValues(R, r, e) == R \ {<<r, e>>}

\* delete entry: the entries of D leave the database with their fields
deleteEntries(R, D) == {p \in R : p[1] \notin D}

----------------------------------------------------------------------------
(* requestEntriesRemove *)

\* the references the question about entry e is about: the members of the
\* cohort are ignored
outsideReferences(R, live, q, e) == referencesRecursive(R, live, e) \ Range(q)

\* whether the loop stops at entry e to ask what to do with its references
asksReference(R, live, permanent, e) ==
    permanent /\ referencesRecursive(R, live, e) # {}

RECURSIVE Scan(_, _, _, _, _, _)
\* the for loop over the entries from position i on, up to the next question
Scan(q, i, sel, R, live, permanent) ==
    IF i > Len(q) THEN [ask |-> FALSE, idx |-> i, selected |-> sel]
    ELSE IF asksReference(R, live, permanent, q[i])
    THEN [ask |-> TRUE, idx |-> i, selected |-> sel]
    ELSE Scan(q, i + 1, Append(sel, q[i]), R, live, permanent)

\* the for loop from position i on with the references R, then, unless it
\* stops at a question, the loop that deletes the selected entries
RemoveFrom(q, permanent, i, sel, R) ==
    LET sc == Scan(q, i, sel, R, store \cup recycled, permanent)
        D  == Range(sc.selected)
    IN  /\ selectedEntries' = sc.selected
        /\ idx' = sc.idx
        /\ IF sc.ask
           THEN /\ pc' = "remove_reference"
                /\ refs' = R
                /\ UNCHANGED <<store, recycled, retRemove>>
           ELSE /\ pc' = "done"
                /\ retRemove' = Len(sc.selected)
                /\ store' = store \ D
                /\ IF permanent
                   THEN /\ refs' = deleteEntries(R, D)
                        /\ UNCHANGED recycled
                   ELSE /\ refs' = R
                        /\ recycled' = recycled \cup D

\* return 0 that first recycles the entries marked so far
RemoveMarked ==
    /\ pc' = "done"
    /\ retRemove' = 0
    /\ store' = store \ Range(selectedEntries)
    /\ recycled' = recycled \cup Range(selectedEntries)
    /\ UNCHANGED <<idx, selectedEntries>>

\* return 0 before anything was selected or deleted
RemoveNothing ==
    /\ pc' = "done"
    /\ retRemove' = 0
    /\ UNCHANGED <<idx, selectedEntries, store, recycled>>

\* the guard and the questions once RemoveFrom or RemoveNothing has run;
\* `held` tells whether an earlier step has constructed the guard
AfterLoop(held) ==
    IF pc' = "remove_reference"
    THEN /\ asked' = Append(asked, <<"remove_reference", idx'>>)
         /\ IF held THEN UNCHANGED lrVars ELSE LineReaderGuard
    ELSE /\ UNCHANGED asked
         /\ IF held THEN LineReaderGuardRelease ELSE LineReaderGuardScope

\* whether requestEntriesRemove returns 0 after the confirmation question
\* was answered with `choice`
confirmReturns(choice) == choice = 0

\* the handler up to its first question
requestEntriesRemove ==
    /\ pc = "idle"
    /\ \E q \in DistinctSeqs(store), permanent \in BOOLEAN,
          setting \in BOOLEAN :
          /\ req' = [kind |-> "remove", entries |-> q,
                     permanent |-> permanent, confirmDeleteItem |-> setting]
          /\ hist' = [NoHist EXCEPT !.store0 = store, !.recycled0 = recycled,
                                    !.refs0 = refs,
                                    !.confirmAsked = q # <<>> /\ setting,
                                    !.early = q = <<>>]
          /\ IF q = <<>>
             THEN RemoveNothing /\ UNCHANGED refs /\ AfterLoop(FALSE)
             ELSE IF setting
             THEN /\ pc' = "remove_confirm"
                  /\ asked' = << <<"remove_confirm", 0>> >>
                  /\ LineReaderGuard
                  /\ UNCHANGED <<idx, remVars, dbVars>>
             ELSE RemoveFrom(q, permanent, 1, <<>>, refs) /\ AfterLoop(FALSE)
    /\ rd' = NoRead
    /\ UNCHANGED <<ioVars, unlVars, sesVars, rlVars>>

\* the question of confirmDeleteEntries and the code that follows its answer
confirmDeleteEntries ==
    /\ pc = "remove_confirm"
    /\ CanRead
    /\ \E r \in {userAction(ConfirmAliases, stdin, eof)} :
         /\ Consume("remove_confirm", r)
         /\ IF r.again
            THEN /\ hist' = [hist EXCEPT !.noticed = TRUE]
                 /\ UNCHANGED <<pc, idx, remVars, dbVars, asked, lrVars>>
            ELSE /\ hist' = [hist EXCEPT !.confirm = r.result,
                                         !.cancelled = r.result = -1,
                                         !.early = confirmReturns(r.result)]
                 /\ IF confirmReturns(r.result)
                    THEN RemoveNothing /\ UNCHANGED refs
                    ELSE RemoveFrom(req.entries, req.permanent, 1, <<>>,
                                    refs)
                 /\ AfterLoop(TRUE)
    /\ UNCHANGED <<req, unlVars, sesVars, rlVars>>

\* the loop over the references S of entry e under "Overwrite"
Overwrite(R, S, e) ==
    {p \in R : \A r \in S : p \in replaceReferencesWithValues(R, r, e)}

\* the switch on the answer about entry e: the references after it
referencesAfter(R, S, e, choice) ==
    IF choice = 0 THEN Overwrite(R, S, e) ELSE R

\* selectedAfter that marks a skipped entry too
selectedAfterAlways(sel, e, choice) == Append(sel, e)

\* the switch on the answer about entry e: the entries marked for deletion
selectedAfter(sel, e, choice) ==
    IF choice = 1 THEN sel ELSE Append(sel, e)

\* the name of a resolution
Resolution(choice) ==
    CASE choice = 0 -> "overwrite" [] choice = 1 -> "skip"
      [] choice = 2 -> "delete"

\* the question "Replace references to entry?" about entry idx and the code
\* that follows its answer
removeAskReference ==
    /\ pc = "remove_reference"
    /\ CanRead
    /\ \E r \in {userAction(ReferenceAliases, stdin, eof)},
          e \in {req.entries[idx]} :
         /\ Consume("remove_reference", r)
         /\ IF r.again
            THEN /\ hist' = [hist EXCEPT !.noticed = TRUE]
                 /\ UNCHANGED <<pc, idx, remVars, dbVars, asked, lrVars>>
            ELSE IF r.result = -1
            THEN /\ hist' = [hist EXCEPT !.cancelled = TRUE, !.early = TRUE]
                 /\ RemoveNothing
                 /\ UNCHANGED refs
                 /\ AfterLoop(TRUE)
            ELSE /\ hist' = [hist EXCEPT !.resolution =
                                           Put(@, e, Resolution(r.result))]
                 /\ RemoveFrom(req.entries, req.permanent, idx + 1,
                               selectedAfter(selectedEntries, e, r.result),
                               referencesAfter(refs,
                                   outsideReferences(refs, store \cup recycled,
                                                     req.entries, e),
                                   e, r.result))
                 /\ AfterLoop(TRUE)
    /\ UNCHANGED <<req, unlVars, sesVars, rlVars>>

----------------------------------------------------------------------------
(* keepassxc-cli.cpp: the commands of the interactive session *)

\* the databases the operator may open; "none" is the null pointer
Databases == {"db1", "db2"}

\* the lines the operator types at the prompt of the session
CommandLines ==
    { <<>>, <<"o", "p", "e", "n">>, <<"c", "l", "o", "s", "e">>,
      <<"q", "u", "i", "t">>, <<"l", "s">>, <<"x">> }

\* Commands::getCommand: the names of the interactive commands, "ls"
\* standing for the commands that work on the open database
Commands ==
    { <<"o", "p", "e", "n">>, <<"c", "l", "o", "s", "e">>,
      <<"q", "u", "i", "t">>, <<"e", "x", "i", "t">>, <<"l", "s">> }

\* Utils::splitCommandString(command)[0], <<>> when there are no arguments
firstArg(command) == ReadWord(command).word

\* what the handler of readLine takes the line for
commandKind(command) ==
    IF firstArg(command) = <<>> THEN "empty"
    ELSE IF firstArg(command) \notin Commands THEN "unknown"
    ELSE IF firstArg(command) \in {<<"q", "u", "i", "t">>, <<"e", "x", "i", "t">>}
    THEN "quit"
    ELSE IF firstArg(command) = <<"o", "p", "e", "n">> THEN "open"
    ELSE IF firstArg(command) = <<"c", "l", "o", "s", "e">> THEN "close"
    ELSE "other"

\* Command::execute on the database handed over: the databases it may hand
\* back.  Open opens a database or fails and holds none, Close holds none,
\* every other command gives back what it was given.
execute(kind, db) ==
    CASE kind = "open" -> Databases \cup {"none"}
      [] kind = "close" -> {"none"}
      [] OTHER -> {db}

\* FdoSecretsPlugin::databaseUnlocked / SSHAgent::databaseUnlocked
databaseUnlocked(registered, db) == registered \cup {db}

\* FdoSecretsPlugin::unregisterDatabase / SSHAgent::databaseLocked
databaseLocked(registered, db) == registered \ {db}

\* unregistersBefore that leaves "open" out
unregistersBeforeClose(kind) == kind = "close"

\* whether the handler unregisters the current database before the command
unregistersBefore(kind) == kind \in {"open", "close"}

\* whether the handler registers the current database after the command
registersAfter(kind) == kind = "open"

\* the collaborator's registrations before the command runs
registeredBefore(enabled, registered, kind, db) ==
    IF enabled /\ unregistersBefore(kind) /\ db # "none"
    THEN databaseLocked(registered, db) ELSE registered

\* the collaborator's registrations after the command has run
registeredAfter(enabled, registered, kind, db) ==
    IF enabled /\ registersAfter(kind) /\ db # "none"
    THEN databaseUnlocked(registered, db) ELSE registered

\* the lambda connected to LineReader::readLine
onReadLine(command) ==
    \E kind \in {commandKind(command)} :
       IF kind \in {"empty", "unknown"}
       THEN UNCHANGED <<loop, sesVars, rlVars>>
       ELSE IF kind = "quit"
       THEN loop' = "quit" /\ UNCHANGED <<sesVars, rlVars>>
       ELSE \E db \in execute(kind, currentDatabase) :
              /\ currentDatabase' = db
              /\ fdoSS' = registeredAfter(withFdoSecrets,
                              registeredBefore(withFdoSecrets, fdoSS, kind,
                                               currentDatabase),
                              kind, db)
              /\ sshAgent' = registeredAfter(withSSHAgent,
                                 registeredBefore(withSSHAgent, sshAgent, kind,
                                                  currentDatabase),
                                 kind, db)
              /\ m_prompt' = getPrompt(db, withFdoSecrets, withSSHAgent)
              /\ UNCHANGED <<loop, withFdoSecrets, withSSHAgent, rlVars>>

----------------------------------------------------------------------------
(* cli/LineReader.h: the slots connected to m_notifier.activated *)

\* readLine that leaves the line in the stream
readLineKeep(s) == [line |-> UpToNL(s), rest |-> s]

\* QTextStream::readLine / the line readline hands to its handler: the text
\* up to the line terminator, which is consumed with it
readLine(s) ==
    [line |-> UpToNL(s), rest |-> SubSeq(s, FirstOf(s, "NL", 1) + 1, Len(s))]

\* a read of a line returns: a whole line or the end of the input is there
LineReady == eof \/ FirstOf(stdin, "NL", 1) <= Len(stdin)

\* the record of a slot that took the line `command` and left `rest` unread
SlotEv(command, rest) ==
    [op |-> "slot", input |-> stdin, rest |-> rest, closed |-> eof,
     cmd |-> commandKind(command),
     before |-> <<currentDatabase, fdoSS, sshAgent>>]

\* the reader emits finished(), which is connected to QCoreApplication::quit
emitFinished(lr) ==
    /\ reader' = [lr EXCEPT !.emitted = Append(@, <<"finished">>)]
    /\ finishedCount' = finishedCount + 1
    /\ loop' = "quit"
    /\ ev' = [NoEv EXCEPT !.op = "slot", !.input = stdin, !.rest = stdin,
                          !.closed = eof]
    /\ UNCHANGED <<stdin, sesVars, rlVars>>

\* the lambda SimpleLineReader::restore connects
SimpleSlot ==
    /\ LineReady
    /\ IF atEnd(stdin, eof)
       THEN emitFinished([Fresh(reader) EXCEPT
                             !.m_notifier = disconnect(@, "this")])
       ELSE \E l \in {readLine(stdin)} :
              /\ stdin' = l.rest
              /\ reader' = [Fresh(reader) EXCEPT
                               !.emitted = <<<<"readLine", l.line>>>>,
                               !.out = <<"prompt">>]
              /\ onReadLine(l.line)
              /\ ev' = SlotEv(l.line, l.rest)
              /\ UNCHANGED finishedCount

\* add_history(line) of readline: an entry is appended for whatever pointer
\* it is given, the null pointer included
add_history(h, null, line) == Append(h, [null |-> null, line |-> line])

\* rl_callback_read_char with the handler s_readLine, taken at the point where
\* readline has a whole line or the end of the input: s_readLine calls
\* handleLine and then add_history.  Without a handler readline aborts.
ReadlineSlot ==
    IF ~reader.rl_linefunc
    THEN /\ loop' = "aborted"
         /\ reader' = Fresh(reader)
         /\ ev' = [NoEv EXCEPT !.op = "abort"]
         /\ UNCHANGED <<stdin, finishedCount, sesVars, rlVars>>
    ELSE /\ LineReady
         /\ Len(reader.history) < MaxHistory
         /\ IF atEnd(stdin, eof)
            THEN emitFinished([Fresh(reader) EXCEPT
                                  !.rl_linefunc = FALSE,
                                  !.m_notifier = disconnect(@, "this"),
                                  !.history = add_history(@, TRUE, <<>>)])
            ELSE \E l \in {readLine(stdin)} :
                   /\ stdin' = l.rest
                   /\ reader' = [Fresh(reader) EXCEPT
                                    !.emitted = <<<<"readLine", l.line>>>>,
                                    !.out = <<"prompt">>,
                                    !.rl_linefunc = TRUE,
                                    !.history = add_history(@, FALSE, l.line)]
                   /\ onReadLine(l.line)
                   /\ ev' = SlotEv(l.line, l.rest)
                   /\ UNCHANGED finishedCount

----------------------------------------------------------------------------
(* keepassxc-cli.cpp: enterInteractiveMode *)

\* the variables of the plugin while no request is being served
plgVars == <<consumed, dbVars, pc, req, idx, unlVars, remVars, rd, hist,
             asked>>

\* the set a collaborator holds when `db` is registered with it
Registered(enabled, db) == IF enabled /\ db # "none" THEN {db} ELSE {}

\* enterInteractiveMode up to app.exec(): the first database is opened, the
\* reader is constructed and the database is registered with the plugin and
\* with the agent
enterInteractiveMode ==
    /\ loop = "start"
    /\ \E opened, fdo, ssh, sshEnabled \in BOOLEAN :
         IF ~opened
         THEN /\ loop' = "returned"
              /\ UNCHANGED <<reader, sesVars, rlVars>>
         ELSE /\ withFdoSecrets' = fdo
              /\ withSSHAgent' = ssh
              /\ currentDatabase' = "db1"
              /\ m_prompt' = getPrompt("db1", fdo, ssh)
              /\ fdoSS' = Registered(fdo, "db1")
              /\ instance' = ownerAfter(backend, instance, 1)
              /\ IF ssh /\ ~sshEnabled
                 THEN /\ loop' = "returned"
                      /\ reader' = NoReader
                      /\ alive' = aliveAfter(backend, alive, 1) \ {1}
                      /\ UNCHANGED sshAgent
                 ELSE /\ loop' = "running"
                      /\ reader' = LineReader(backend)
                      /\ alive' = aliveAfter(backend, alive, 1)
                      /\ sshAgent' = Registered(ssh, "db1")
    /\ UNCHANGED <<ioVars, plgVars, backend, guards, pending, ev,
                   finishedCount>>

\* the operator types a command line
TypeCommand ==
    /\ loop \in {"running", "quit"}
    /\ ~eof
    /\ Len(stdin) < MaxPending
    /\ \E l \in CommandLines : stdin' = stdin \o l \o <<"NL">>
    /\ UNCHANGED <<eof, plgVars, lrVars, sesVars, rlVars>>

\* the event loop finds the standard input readable: QSocketNotifier emits
\* activated, and the slots connected to it are called in turn
activated ==
    /\ loop = "running"
    /\ pending = <<>>
    /\ guards = 0
    /\ stdin # <<>> \/ eof
    /\ reader.m_notifier # <<>>
    /\ pending' = reader.m_notifier
    /\ UNCHANGED <<ioVars, plgVars, backend, reader, guards, loop, ev,
                   finishedCount, sesVars, rlVars>>

\* the next slot of the emission is called
callSlot ==
    /\ pending # <<>>
    /\ loop \in {"running", "quit"}
    /\ IF Head(pending).slot = "lambda" THEN SimpleSlot ELSE ReadlineSlot
    /\ pending' = Tail(pending)
    /\ UNCHANGED <<eof, plgVars, backend, guards>>

\* a request of a client reaches the plugin: requestEntriesUnlock or
\* requestEntriesRemove constructs its guard.  The handlers run on the thread
\* of the event loop, so none starts while a slot or another handler runs.
pluginRequest ==
    /\ withFdoSecrets
    /\ loop = "running"
    /\ pending = <<>>
    /\ guards = 0
    /\ Len(reader.m_notifier) <= MaxCycles
    /\ LineReaderGuard
    /\ UNCHANGED <<ioVars, plgVars, sesVars, rlVars>>

\* userAction reads a word for the handler that holds the guard
pluginReads ==
    /\ guards > 0
    /\ CanRead
    /\ stdin' = ReadWord(stdin).rest
    /\ ev' = [NoEv EXCEPT !.op = "read"]
    /\ UNCHANGED <<eof, plgVars, backend, reader, guards, pending, loop,
                   finishedCount, sesVars, rlVars>>

\* the handler returns and its guard is destroyed
pluginReturn ==
    /\ guards > 0
    /\ LineReaderGuardRelease
    /\ UNCHANGED <<ioVars, plgVars, sesVars, rlVars>>

\* enterInteractiveMode after app.exec() has returned
afterExec ==
    /\ loop = "quit"
    /\ pending = <<>>
    /\ loop' = "returned"
    /\ fdoSS' = registeredBefore(withFdoSecrets, fdoSS, "close",
                                 currentDatabase)
    /\ sshAgent' = registeredBefore(withSSHAgent, sshAgent, "close",
                                    currentDatabase)
    /\ reader' = destroyed(Fresh(reader))
    /\ alive' = alive \ {1}
    /\ ev' = [NoEv EXCEPT !.op = "destroy"]
    /\ UNCHANGED <<ioVars, plgVars, backend, guards, pending,
                   finishedCount, withFdoSecrets, withSSHAgent,
                   currentDatabase, m_prompt, instance>>

\* the process before enterInteractiveMode is called
SessionInit ==
    /\ stdin = <<>>
    /\ eof = FALSE
    /\ consumed = <<>>
    /\ store = Entry
    /\ recycled = {}
    /\ refs = RefPairs
    /\ pc = "idle"
    /\ req = NoReq
    /\ idx = 0
    /\ action = "Rejected"
    /\ decision = "Undecided"
    /\ decisions = <<>>
    /\ forFutureEntries = "Undecided"
    /\ selectedEntries = <<>>
    /\ retUnlock = FALSE
    /\ retRemove = 0
    /\ rd = NoRead
    /\ hist = NoHist
    /\ asked = <<>>
    /\ backend \in Backends
    /\ reader = NoReader
    /\ guards = 0
    /\ pending = <<>>
    /\ loop = "start"
    /\ ev = NoEv
    /\ finishedCount = 0
    /\ withFdoSecrets = FALSE
    /\ withSSHAgent = FALSE
    /\ currentDatabase = "none"
    /\ m_prompt = getPrompt("none", FALSE, FALSE)
    /\ fdoSS = {}
    /\ sshAgent = {}
    /\ instance = nullptr
    /\ alive = {}

SessionNext ==
    \/ enterInteractiveMode
    \/ TypeCommand
    \/ CloseInput
    \/ activated
    \/ callSlot
    \/ pluginRequest
    \/ pluginReads
    \/ pluginReturn
    \/ afterExec

SessionSpec == SessionInit /\ [][SessionNext]_vars

----------------------------------------------------------------------------
(* cli/LineReader.h: ReadlineLineReader objects constructed and destroyed *)

\* the objects a ReadlineLineReader can be constructed as
Objects == 1..MaxObjects

\* new ReadlineLineReader(prompt) constructs object `this`.  Q_ASSERT aborts
\* in a build that compiles assertions in and is empty in one that does not.
ReadlineLineReader ==
    /\ loop = "start"
    /\ \E this \in Objects \ alive, asserts \in BOOLEAN :
         IF asserts /\ instance # nullptr
         THEN /\ loop' = "aborted"
              /\ reader' = Fresh(reader)
              /\ ev' = [NoEv EXCEPT !.op = "assert"]
              /\ UNCHANGED rlVars
         ELSE /\ instance' = ownerAfter("readline", instance, this)
              /\ alive' = aliveAfter("readline", alive, this)
              /\ reader' = restore("readline",
                                   [NoReader EXCEPT !.history = reader.history])
              /\ ev' = [NoEv EXCEPT !.op = "construct"]
              /\ UNCHANGED loop
    /\ UNCHANGED <<ioVars, plgVars, backend, guards, pending, finishedCount,
                   sesVars>>

\* delete of object `this`: ~ReadlineLineReader removes the handler of
\* readline, ~LineReader and the destructor of m_notifier follow; `reader` is
\* the object instance points to
ReadlineLineReaderDelete ==
    /\ loop = "start"
    /\ \E this \in alive :
         /\ alive' = alive \ {this}
         /\ reader' = IF this = instance THEN destroyed(Fresh(reader))
                      ELSE [Fresh(reader) EXCEPT !.rl_linefunc = FALSE]
    /\ ev' = [NoEv EXCEPT !.op = "destroy"]
    /\ UNCHANGED <<ioVars, plgVars, backend, guards, pending, loop,
                   finishedCount, sesVars, instance>>

\* a process that has constructed no reader yet
ReaderInit ==
    /\ stdin = <<>>
    /\ eof = FALSE
    /\ consumed = <<>>
    /\ store = Entry
    /\ recycled = {}
    /\ refs = RefPairs
    /\ pc = "idle"
    /\ req = NoReq
    /\ idx = 0
    /\ action = "Rejected"
    /\ decision = "Undecided"
    /\ decisions = <<>>
    /\ forFutureEntries = "Undecided"
    /\ selectedEntries = <<>>
    /\ retUnlock = FALSE
    /\ retRemove = 0
    /\ rd = NoRead
    /\ hist = NoHist
    /\ asked = <<>>
    /\ backend = "readline"
    /\ reader = NoReader
    /\ guards = 0
    /\ pending = <<>>
    /\ loop = "start"
    /\ ev = NoEv
    /\ finishedCount = 0
    /\ withFdoSecrets = FALSE
    /\ withSSHAgent = FALSE
    /\ currentDatabase = "none"
    /\ m_prompt = getPrompt("none", FALSE, FALSE)
    /\ fdoSS = {}
    /\ sshAgent = {}
    /\ instance = nullptr
    /\ alive = {}

ReaderNext ==
    \/ ReadlineLineReader
    \/ ReadlineLineReaderDelete

ReaderSpec == ReaderInit /\ [][ReaderNext]_vars

----------------------------------------------------------------------------
(* The specification *)

Next ==
    \/ TypeLine
    \/ CloseInput
    \/ requestEntriesUnlock
    \/ unlockChooseAction
    \/ unlockAskEntry
    \/ unlockRemember
    \/ requestEntriesRemove
    \/ confirmDeleteEntries
    \/ removeAskReference

Spec == Init /\ [][Next]_vars


\* a database of two entries, one referring to the other
SmallInit ==
    /\ stdin = <<>>
    /\ eof = FALSE
    /\ consumed = <<>>
    /\ store = {"e1", "e2"}
    /\ recycled = {}
    /\ refs = {<<"e2", "e1">>}
    /\ pc = "idle"
    /\ req = NoReq
    /\ idx = 0
    /\ action = "Rejected"
    /\ decision = "Undecided"
    /\ decisions = <<>>
    /\ forFutureEntries = "Undecided"
    /\ selectedEntries = <<>>
    /\ retUnlock = FALSE
    /\ retRemove = 0
    /\ rd = NoRead
    /\ hist = NoHist
    /\ asked = <<>>
    /\ backend = "simple"
    /\ reader = Fresh(LineReader(backend))
    /\ Running

\* the operator types finitely many lines and then closes the input; a read
\* that can proceed does proceed
LiveSpec ==
    /\ SmallInit
    /\ [][Next]_vars
    /\ SF_vars(CloseInput)
    /\ WF_vars(unlockChooseAction)
    /\ WF_vars(unlockAskEntry)
    /\ WF_vars(unlockRemember)
    /\ WF_vars(confirmDeleteEntries)
    /\ WF_vars(removeAskReference)

----------------------------------------------------------------------------
(* Properties *)

\* the request of the given kind has returned
Done(kind) == pc = "done" /\ req.kind = kind

\* the alias table of the prompt a read belongs to
AliasesOf(prompt) ==
    CASE prompt = "unlock_action" -> UnlockAliases
      [] prompt \in {"unlock_entry", "unlock_remember"} -> YesNoAliases
      [] prompt = "remove_confirm" -> ConfirmAliases
      [] prompt = "remove_reference" -> ReferenceAliases

\* the entries the request took out of the store
Removed == hist.store0 \ store

\* C1: when the confirmation question of requestEntriesRemove was asked and
\* the answer was Deny or the input ended, no entry is removed and 0 is
\* returned.
C1_DenyRemovesNothing ==
    (Done("remove") /\ hist.confirmAsked /\ hist.confirm # 0)
        => (retRemove = 0 /\ store = hist.store0 /\ recycled = hist.recycled0)

\* C2: a request during which the input ended at a prompt leaves no durable
\* decision that was not there before, leaves the future policy Undecided
\* and removes no entry.
C2_EndOfInputIsNoOp ==
    (pc = "done" /\ hist.cancelled)
        => /\ \A e \in DOMAIN decisions :
                decisions[e] \in {"Allowed", "Denied"}
                    => (e \in DOMAIN hist.decisions0 /\
                        hist.decisions0[e] = decisions[e])
           /\ forFutureEntries = "Undecided"
           /\ store = hist.store0
           /\ recycled = hist.recycled0
           /\ (req.kind = "remove" => retRemove = 0)

\* C3: a cancelled requestEntriesUnlock returns false and its decisions map
\* is the one it was called with.
C3_CancelledUnlockRecordsNothing ==
    (Done("unlock") /\ hist.cancelled)
        => (~retUnlock /\ decisions = hist.decisions0)

\* the decision a blanket action ends with
BlanketDecision(act, remember) ==
    CASE act = "AllowAll" /\ remember = 0 -> "Allowed"
      [] act = "AllowAll" /\ remember = 1 -> "AllowedOnce"
      [] act = "DenyAll" /\ remember = 0 -> "Denied"
      [] act = "DenyAll" /\ remember = 1 -> "DeniedOnce"

\* C4: after a completed Allow All or Deny All every requested entry holds
\* Allowed / Denied and the future policy is the same when the action is
\* remembered, and every entry holds AllowedOnce / DeniedOnce and the future
\* policy is Undecided when it is not.
C4_BlanketChoice ==
    (Done("unlock") /\ retUnlock /\ action \in {"AllowAll", "DenyAll"})
        => /\ \A e \in Range(req.entries) :
                /\ e \in DOMAIN decisions
                /\ decisions[e] = BlanketDecision(action, hist.remember)
           /\ forFutureEntries =
                 IF hist.remember = 0
                 THEN BlanketDecision(action, hist.remember)
                 ELSE "Undecided"

C4_Witness ==
    /\ Done("unlock") /\ retUnlock
    /\ action = "AllowAll" /\ hist.remember = 0
    /\ Len(req.entries) = 3
    /\ forFutureEntries = "Allowed"
    /\ \A e \in Range(req.entries) : decisions[e] = "Allowed"

\* C5: after a completed Allow Selected an entry answered yes holds
\* AllowedOnce (not remembered) or Allowed (remembered), an entry answered no
\* holds Undecided, and the future policy is Undecided.
C5_AllowSelected ==
    (Done("unlock") /\ retUnlock /\ action = "AllowSelected")
        => /\ Len(hist.answers) = Len(req.entries)
           /\ \A k \in 1..Len(req.entries) :
                /\ req.entries[k] \in DOMAIN decisions
                /\ decisions[req.entries[k]] =
                      IF hist.answers[k] # 0 THEN "Undecided"
                      ELSE IF hist.remember = 0 THEN "Allowed"
                      ELSE "AllowedOnce"
           /\ forFutureEntries = "Undecided"

C5_Witness ==
    /\ Done("unlock") /\ retUnlock
    /\ action = "AllowSelected"
    /\ hist.answers = <<0, 1, 0>> /\ hist.remember = 1
    /\ <<decisions[req.entries[1]], decisions[req.entries[2]],
         decisions[req.entries[3]]>>
          = <<"AllowedOnce", "Undecided", "AllowedOnce">>
    /\ forFutureEntries = "Undecided"

\* C6: an iteration of userAction returns choice i only if the cleaned input
\* is an alias of i; an input that is no alias of any choice gives the
\* "Unknown response" notice and another iteration; what is returned is -1
\* or the number of a choice.
C6_OnlyMatchingChoice ==
    rd.prompt # "none"
        => /\ (~rd.again /\ rd.result # -1)
                => /\ rd.result \in DOMAIN AliasesOf(rd.prompt)
                   /\ toLower(trimmed(rd.input))
                         \in AliasesOf(rd.prompt)[rd.result]
           /\ (rd.input # <<>> /\
               Matching(AliasesOf(rd.prompt), toLower(trimmed(rd.input))) = {})
                => (rd.again /\ rd.notice)
           /\ ~rd.again
                => rd.result \in {-1} \cup DOMAIN AliasesOf(rd.prompt)

\* C7: when the line an iteration of userAction starts reading is, trimmed
\* and in lower case, an alias of choice i, the iteration returns i.
C7_LineSelectsItsChoice ==
    (rd.prompt # "none" /\ rd.first)
        => \A i \in DOMAIN AliasesOf(rd.prompt) :
              toLower(trimmed(rd.line)) \in AliasesOf(rd.prompt)[i]
                  => (~rd.again /\ rd.result = i)

\* the prompts of the two handlers
Prompts ==
    {"unlock_action", "unlock_entry", "unlock_remember", "remove_confirm",
     "remove_reference"}

\* C8: an iteration of userAction that finds the input exhausted returns -1
\* without a notice and without another iteration, and on an input that the
\* operator closes every call of userAction returns.
C8_CancelledAtEndOfInput ==
    /\ [](rd.prompt # "none" /\ ~rd.more
            => ~rd.again /\ ~rd.notice /\ rd.result = -1)
    /\ \A p \in Prompts : \A k \in 0..(MaxEntries + 1) :
          (pc = p /\ idx = k) ~> ~(pc = p /\ idx = k)

C8_Witness ==
    /\ pc = "done"
    /\ hist.noticed
    /\ rd.prompt # "none" /\ ~rd.more /\ rd.result = -1

\* C9: after a permanent removal no entry left in the database refers to an
\* entry that was deleted with the answer Overwrite.
C9_NoDanglingAfterOverwrite ==
    (Done("remove") /\ req.permanent)
        => \A e \in DOMAIN hist.resolution :
              (hist.resolution[e] = "overwrite" /\ e \notin store)
                  => \A r \in store \cup recycled : <<r, e>> \notin refs

\* the entries answered with Skip
Skipped == {e \in DOMAIN hist.resolution : hist.resolution[e] = "skip"}

\* C10: after a permanent removal an entry answered with Skip is still in
\* the store, every other entry of the batch is removed unless the request
\* returned before its deletion loop, and the count returned is the number
\* of entries removed.
C10_SkipKeepsEntry ==
    (Done("remove") /\ req.permanent)
        => /\ Skipped \subseteq store
           /\ ~hist.early => Removed = Range(req.entries) \ Skipped
           /\ retRemove = Cardinality(Removed)

C10_Witness ==
    /\ Done("remove") /\ req.permanent /\ ~hist.early
    /\ Skipped # {}
    /\ Removed # {}
    /\ retRemove = Len(req.entries) - Cardinality(Skipped)

----------------------------------------------------------------------------
(* Properties of the line reader and of the session *)

\* the number of elements of sequence q that equal x
Count(q, x) == Cardinality({k \in 1..Len(q) : q[k] = x})

\* the readLine signals among the signals the reader emitted last
EmittedLines == SelectSeq(reader.emitted, LAMBDA e : e[1] = "readLine")

\* C11: while the event loop runs, exactly one slot is connected to the
\* input-ready signal when no guard is live and the input has not ended, none
\* while a guard is live, and a restore renders the prompt exactly once.
C11_PauseResumeSymmetry ==
    loop = "running"
        => /\ (guards = 0 /\ finishedCount = 0)
                => Len(reader.m_notifier) = 1
           /\ guards > 0 => Len(reader.m_notifier) = 0
           /\ ev.op = "restore" => Count(reader.out, "prompt") = 1

\* C12: a slot of the reader runs only while no guard is live, emits at most
\* one readLine, and emits it for exactly the one line it takes from the
\* input; a slot that emits no readLine takes nothing from the input.
C12_LineReadyOncePerLine ==
    ev.op = "slot"
        => /\ guards = 0
           /\ Len(EmittedLines) <= 1
           /\ EmittedLines = <<>> => ev.rest = ev.input
           /\ \A k \in 1..Len(EmittedLines) :
                \/ ev.input = EmittedLines[k][2] \o <<"NL">> \o ev.rest
                \/ /\ ev.closed
                   /\ ev.rest = <<>>
                   /\ ev.input = EmittedLines[k][2]
                   /\ EmittedLines[k][2] # <<>>

C12_Witness ==
    /\ ev.op = "slot"
    /\ Len(reader.m_notifier) = 3
    /\ pending = <<>>
    /\ Len(EmittedLines) = 1
    /\ EmittedLines[1][2] = <<"l", "s">>

\* C13: the reader emits finished() at most once, and once it has emitted it
\* it emits no readLine.
C13_FinishedOnce ==
    /\ finishedCount <= 1
    /\ finishedCount = 1 => EmittedLines = <<>>

Asked(kind, i) == \E k \in 1..Len(asked) : asked[k] = <<kind, i>>

\* C15: a removal request for a non-empty list asks the confirmation question
\* exactly when the removal is permanent and the setting confirmDeleteItem
\* is on.
C15_ConfirmIffPermanent ==
    (pc # "idle" /\ req.kind = "remove" /\ req.entries # <<>>)
        => (Asked("remove_confirm", 0)
               <=> (req.permanent /\ req.confirmDeleteItem))

\* the entries outside the list of the running request that referred to the
\* entry at position i when the request arrived
OutsideReferrers(i) ==
    outsideReferences(hist.refs0, hist.store0 \cup hist.recycled0,
                      req.entries, req.entries[i])

\* C16: a removal request asks the question about the references of an entry
\* only when the removal is permanent and an entry outside the list refers to
\* it, and a permanent removal that reaches its deletion loop has asked it
\* about every such entry.
C16_ReferenceQuestion ==
    (pc # "idle" /\ req.kind = "remove")
        => \A i \in 1..Len(req.entries) :
              /\ Asked("remove_reference", i)
                    => (req.permanent /\ OutsideReferrers(i) # {})
              /\ (pc = "done" /\ ~hist.early /\ req.permanent
                     /\ OutsideReferrers(i) # {})
                    => Asked("remove_reference", i)

\* C17: while a removal request waits at one of its questions no entry has
\* left the store or entered the recycle bin, and a request cancelled at a
\* question about references returns with the store and the recycle bin as
\* they were when it arrived.
C17_DeletionAfterLastPrompt ==
    /\ (req.kind = "remove" /\ pc \in Prompts)
          => (store = hist.store0 /\ recycled = hist.recycled0)
    /\ (Done("remove") /\ rd.prompt = "remove_reference" /\ rd.result = -1)
          => (store = hist.store0 /\ recycled = hist.recycled0)

C17_Witness ==
    /\ Done("remove")
    /\ rd.prompt = "remove_reference"
    /\ rd.result = -1
    /\ selectedEntries # <<>>
    /\ Asked("remove_reference", 2)
    /\ store = hist.store0

\* C18: a removal request whose input ended at a question about references
\* returns with the store, the recycle bin and the references between
\* entries as they were when it arrived.
C18_EndOfInputNoChanges ==
    (Done("remove") /\ rd.prompt = "remove_reference" /\ rd.result = -1)
        => /\ retRemove = 0
           /\ store = hist.store0
           /\ recycled = hist.recycled0
           /\ refs = hist.refs0

\* the questions of an unlock request for n entries under action act
UnlockQuestions(act, n) ==
    << <<"unlock_action", 0>> >>
        \o (IF act = "AllowSelected"
            THEN [k \in 1..n |-> <<"unlock_entry", k>>] ELSE <<>>)
        \o << <<"unlock_remember", 0>> >>

\* whether sequence p is the beginning of sequence q
IsPrefix(p, q) == Len(p) <= Len(q) /\ p = SubSeq(q, 1, Len(p))

\* C19: an unlock request asks its questions in the order action, entries,
\* remember: the action first and once, one question per entry in list order
\* under Allow Selected and none otherwise, the remember question once after
\* them; it returns true only when all of them were asked and the remember
\* question was answered, and after the end of the input it returns false
\* without asking a further question.
C19_UnlockOrder ==
    (req.kind = "unlock" /\ pc # "idle")
        => /\ asked # <<>>
           /\ IsPrefix(asked, UnlockQuestions(action, Len(req.entries)))
           /\ pc \in Prompts
                 => asked[Len(asked)]
                       = <<pc, IF pc = "unlock_entry" THEN idx ELSE 0>>
           /\ (pc = "done" /\ retUnlock)
                 => /\ asked = UnlockQuestions(action, Len(req.entries))
                    /\ hist.remember \in {0, 1}
                    /\ ~hist.cancelled
           /\ (pc = "done" /\ hist.cancelled)
                 => /\ ~retUnlock
                    /\ rd.result = -1
                    /\ rd.prompt = asked[Len(asked)][1]

C19_Witness ==
    /\ Done("unlock")
    /\ retUnlock
    /\ action = "AllowSelected"
    /\ asked = << <<"unlock_action", 0>>, <<"unlock_entry", 1>>,
                  <<"unlock_entry", 2>>, <<"unlock_remember", 0>> >>

C21_SingleOwner ==
    /\ Cardinality(alive) <= 1
    /\ instance = nullptr \/ instance \in alive
    /\ ev.op = "assert" => alive # {}

\* C22: no element of the history of readline stands for the end of the
\* input, and a slot of the readline reader that emitted readLine has
\* appended that line to the history.
C22_HistoryPerLine ==
    /\ \A k \in 1..Len(reader.history) : ~reader.history[k].null
    /\ (ev.op = "slot" /\ backend = "readline" /\ EmittedLines # <<>>)
          => /\ reader.history # <<>>
             /\ reader.history[Len(reader.history)].line = EmittedLines[1][2]

\* C23: during and after an unlock request every key of decisions that is
\* not a requested entry was a key when the request arrived and has the
\* value it had then, no key has left the map, and when the request returns
\* true every requested entry is a key.
C23_UnlockWritesRequestedKeys ==
    (req.kind = "unlock" /\ pc # "idle")
        => /\ \A e \in DOMAIN decisions \ Range(req.entries) :
                /\ e \in DOMAIN hist.decisions0
                /\ decisions[e] = hist.decisions0[e]
           /\ DOMAIN hist.decisions0 \subseteq DOMAIN decisions
           /\ (pc = "done" /\ retUnlock)
                 => Range(req.entries) \subseteq DOMAIN decisions

C23_Witness ==
    /\ Done("unlock")
    /\ retUnlock
    /\ hist.remember = 0
    /\ action = "AllowAll"
    /\ Len(req.entries) = 2
    /\ "e1" \notin Range(req.entries)
    /\ DOMAIN decisions = {"e1", "e2", "e3"}
    /\ decisions["e1"] = "Denied"
    /\ decisions["e2"] = "Allowed"

\* C24: when enterInteractiveMode has returned, no database is registered
\* with the secret service plugin or with the SSH agent.
C24_UnregisteredAtReturn ==
    loop = "returned" => (fdoSS = {} /\ sshAgent = {})

=============================================================================
